---------------------------- MODULE Spec2Model ----------------------------
(***************************************************************************)
(* Model of src/app.py: the one-compartment oral PK page.                  *)
(*                                                                         *)
(* Numbers.  The program computes in floating point; the model computes    *)
(* in exact arithmetic on a lattice:                                       *)
(*   - times (t_end_h, dt_h, tau_h, tlag_h, grid points, dose times) are   *)
(*     whole hours;                                                        *)
(*   - rate constants (ka, ke) are whole multiples of ln 2 per hour, so    *)
(*     that np.exp(-k * d) is exactly 2^(-k*d); it is kept as the          *)
(*     numerator ExpNum(k, d) over the fixed denominator ExpDen;           *)
(*   - the floor 1e-12 of max(1e-12, x) is smaller than every positive     *)
(*     value of the lattice: max(1e-12, x) is x when x > 0 and the floor   *)
(*     itself otherwise, recorded by the flag perEps (a division by the    *)
(*     floor) instead of a 13-digit number;                                *)
(*   - a concentration is a numerator over the denominator den of its      *)
(*     curve (times 1/1e-12 when perEps); den is always positive, so the   *)
(*     sign and the zeroness of a value are those of its numerator.        *)
(* Rounding of binary floating point is outside the model.                 *)
(***************************************************************************)
EXTENDS Integers, Sequences, FiniteSets, TLC

VARIABLES
    pc,          \* position of the script run / of the call
    inp,         \* the sidebar widgets' values (lines 26-43)
    V_L,         \* line 46
    ke_h,        \* line 47
    t,           \* line 48: the time grid (or the argument t of a call)
    dose_times,  \* line 49 (or the argument dose_times of a call)
    C,           \* line 52: the curve (or the argument / result C of a call)
    metrics,     \* line 53: Cmax, Tmax, AUC
    args         \* D, F, ka, ke, V of a direct call of oral_one_comp_conc

vars == <<pc, inp, V_L, ke_h, t, dose_times, C, metrics, args>>

(***************************** bounds **************************************)
MaxTime == 2
MaxLen == 2
MaxDoses == 2
MaxRate == 2
MaxTEnd == 3
MaxDt == 3
MaxTau == 2
MaxLag == 2
MaxPts == 3
MaxGridTime == 3
MaxConc == 2

Max2(a, b) == IF a >= b THEN a ELSE b

\* the largest exponent k*d that np.exp is asked for: the largest rate times
\* the largest distance between a grid point and an earlier dose
MaxExp == MaxRate * Max2(MaxTime, MaxTEnd + MaxDt - 1)

(************************** numeric helpers ********************************)
RECURSIVE Pow2(_)
Pow2(n) == IF n = 0 THEN 1 ELSE 2 * Pow2(n - 1)

ExpDen == Pow2(MaxExp)

\* np.exp(-k * d) = 2^(-k*d), as a numerator over ExpDen
ExpNum(k, d) == Pow2(MaxExp - k * d)

CeilDiv(a, b) == 0 - ((0 - a) \div b)

\* np.arange(start, stop, step): ceil((stop - start) / step) points start + i*step
arange(start, stop, step) ==
    LET n == Max2(0, CeilDiv(stop - start, step))
    IN  [i \in 1..n |-> start + (i - 1) * step]

\* every finite sequence over S of length at most n
SeqsUpTo(S, n) == UNION {[1..k -> S] : k \in 0..n}

RemoveAt(s, i) == [j \in 1..(Len(s) - 1) |-> IF j < i THEN s[j] ELSE s[j + 1]]


(******************* max(1e-12, x), lines 11 and 47 ************************)
\* max(1e-12, x): x itself when x > 0 (every positive lattice value exceeds
\* the floor), the floor 1e-12 otherwise.  The value is n, times 1e-12 when
\* floor is TRUE.
max_floor(x) ==
    IF x > 0 THEN [n |-> x, floor |-> FALSE] ELSE [n |-> 1, floor |-> TRUE]

(********************* oral_one_comp_conc, lines 8-16 **********************)
\* line 11: coef = F * D * ka / (V * max(1e-12, (ka - ke)))
\* F is a fraction [num, den]; the result is num / den, divided by 1e-12
\* when perEps.
coef(D, F, ka, ke, V) ==
    LET m == max_floor(ka - ke)
    IN  [num    |-> F.num * D * ka,
         den    |-> F.den * V * m.n,
         perEps |-> m.floor]

\* faulty variant of mask: admits the grid point one hour before the dose
mask_off_by_one(dt) == dt >= 0 - 1

\* line 14: mask = dt >= 0

mask(dt) == dt >= 0

\* line 15, one element: coef * (np.exp(-ke * dt) - np.exp(-ka * dt)),
\* as a numerator over coef.den * ExpDen
term(cnum, ka, ke, dt) == cnum * (ExpNum(ke, dt) - ExpNum(ka, dt))

\* faulty variant of add_dose: C[mask] = ... in place of C[mask] += ...
add_dose_overwrite(Cn, ts, ti, cnum, ka, ke) ==
    [j \in DOMAIN ts |->
        IF mask(ts[j] - ti) THEN term(cnum, ka, ke, ts[j] - ti) ELSE Cn[j]]

\* lines 13-15, one pass of the loop body for the dose at ti:
\* C[mask] += coef * (...)
add_dose(Cn, ts, ti, cnum, ka, ke) ==
    [j \in DOMAIN ts |->
        IF mask(ts[j] - ti)
        THEN Cn[j] + term(cnum, ka, ke, ts[j] - ti)
        ELSE Cn[j]]

\* line 12: for ti in dose_times, from the i-th dose on
RECURSIVE dose_loop(_, _, _, _, _, _, _)
dose_loop(Cn, ts, dts, i, cnum, ka, ke) ==
    IF i > Len(dts) THEN Cn
    ELSE dose_loop(add_dose(Cn, ts, dts[i], cnum, ka, ke),
                   ts, dts, i + 1, cnum, ka, ke)

\* lines 8-16.  The curve: numerators num over the common denominator den
\* (> 0), every value divided by 1e-12 when perEps.
oral_one_comp_conc(ts, dts, D, F, ka, ke, V) ==
    LET c  == coef(D, F, ka, ke, V)
        C0 == [j \in DOMAIN ts |-> 0]               \* line 10: np.zeros_like
    IN  [num    |-> dose_loop(C0, ts, dts, 1, c.num, ka, ke),
         den    |-> c.den * ExpDen,
         perEps |-> c.perEps]

(************************* pk_metrics, lines 18-22 *************************)
\* faulty variant of argmax_scan: keeps the last index of the largest value
RECURSIVE argmax_scan_last(_, _, _)
argmax_scan_last(Cn, i, best) ==
    IF i > Len(Cn) THEN best
    ELSE argmax_scan_last(Cn, i + 1, IF Cn[i] >= Cn[best] THEN i ELSE best)

\* np.argmax: one scan that keeps the first index of the largest value
RECURSIVE argmax_scan(_, _, _)
argmax_scan(Cn, i, best) ==
    IF i > Len(Cn) THEN best
    ELSE argmax_scan(Cn, i + 1, IF Cn[i] > Cn[best] THEN i ELSE best)

\* np.argmax raises ValueError on an empty array
argmax_raises(Cn) == Len(Cn) = 0

\* line 19 (1-based index)
argmax(Cn) == argmax_scan(Cn, 2, 1)

RECURSIVE SumSeq(_)
SumSeq(s) == IF s = <<>> THEN 0 ELSE Head(s) + SumSeq(Tail(s))

\* faulty variant of trapz: the left rectangle rule
trapz_left_rule(y, x) ==
    LET n == Len(x)
        d == [i \in 1..(n - 1) |-> x[i + 1] - x[i]]
    IN  [num |-> SumSeq([i \in 1..(n - 1) |-> d[i] * (y[i] + y[i])]),
         den |-> 2]

\* np.trapz(y, x): d = np.diff(x); (d * (y[1:] + y[:-1]) / 2.0).sum()
\* returned as the fraction num / den
trapz(y, x) ==
    LET n == Len(x)
        d == [i \in 1..(n - 1) |-> x[i + 1] - x[i]]
    IN  [num |-> SumSeq([i \in 1..(n - 1) |-> d[i] * (y[i + 1] + y[i])]),
         den |-> 2]

\* lines 19-22, when np.argmax does not raise
pk_metrics(ts, Cn) ==
    LET idx == argmax(Cn)
    IN  [Cmax |-> Cn[idx], Tmax |-> ts[idx], AUC |-> trapz(Cn, ts)]

(************************ derived params, lines 46-49 **********************)
\* line 46
derive_V_L(Vd_per_kg, weight_kg) == Vd_per_kg * weight_kg

\* line 47: ke_h = CL_L_h / max(1e-12, V_L).  The widgets' minima keep
\* V_L > 0, so the floor is never taken; the inputs are those for which the
\* quotient is on the lattice.
derive_ke_h(CL_L_h, V) == CL_L_h \div max_floor(V).n

\* faulty variant of time_grid: the end point left out
time_grid_exclusive(t_end_h, dt_h) == arange(0, t_end_h, dt_h)

\* line 48: t = np.arange(0.0, t_end_h + dt_h, dt_h)
time_grid(t_end_h, dt_h) == arange(0, t_end_h + dt_h, dt_h)

\* faulty variant of build_dose_times: the lag left out
build_dose_times_no_lag(tau_h, n_doses, tlag_h) ==
    [i \in 1..n_doses |-> (i - 1) * tau_h]

\* line 49: np.array([i * tau_h for i in range(int(n_doses))]) + tlag_h
build_dose_times(tau_h, n_doses, tlag_h) ==
    [i \in 1..n_doses |-> (i - 1) * tau_h + tlag_h]


(****************************** input sets *********************************)
\* bioavailability F as a fraction; the slider (line 32) allows 0.05..0.99
SliderF == {[num |-> 1, den |-> 4], [num |-> 3, den |-> 4]}

\* the values a widget can take (lines 26-43), each within its min_value;
\* CL_L_h is in units of ln 2 L/h, ka_h in units of ln 2 per hour
WidgetValues(f) ==
    CASE f = "weight_kg" -> {1, 2}
      [] f = "CL_L_h"    -> {1, 2}
      [] f = "ka_h"      -> 1..MaxRate
      [] f = "F"         -> SliderF
      [] f = "Vd_per_kg" -> {1}
      [] f = "dose_mg"   -> {1, 2}
      [] f = "tau_h"     -> 1..MaxTau
      [] f = "n_doses"   -> 1..MaxDoses
      [] f = "tlag_h"    -> 0..MaxLag
      [] f = "t_end_h"   -> 1..MaxTEnd
      [] f = "dt_h"      -> 1..MaxDt

Widgets ==
    [weight_kg : WidgetValues("weight_kg"), CL_L_h : WidgetValues("CL_L_h"),
     ka_h : WidgetValues("ka_h"), F : WidgetValues("F"),
     Vd_per_kg : WidgetValues("Vd_per_kg"), dose_mg : WidgetValues("dose_mg"),
     tau_h : WidgetValues("tau_h"), n_doses : WidgetValues("n_doses"),
     tlag_h : WidgetValues("tlag_h"), t_end_h : WidgetValues("t_end_h"),
     dt_h : WidgetValues("dt_h")]

\* the inputs whose ke_h = CL_L_h / V_L is on the lattice of rates
OnLattice(w) ==
    LET V == derive_V_L(w.Vd_per_kg, w.weight_kg)
    IN  (w.CL_L_h % V = 0) /\ (w.CL_L_h \div V \in 1..MaxRate)

NoCurve == [num |-> <<>>, den |-> 1, perEps |-> FALSE]
NoMetrics == [Cmax |-> 0, Tmax |-> 0, AUC |-> [num |-> 0, den |-> 2]]
NoArgs == [D |-> 1, F |-> [num |-> 1, den |-> 1], ka |-> 1, ke |-> 1, V |-> 1]
NoInp == CHOOSE w \in Widgets : TRUE

(************************ the page: one script run *************************)
\* the script starts with the widgets' values and nothing computed yet
Init ==
    /\ pc = "derive"
    /\ inp \in {w \in Widgets : OnLattice(w)}
    /\ V_L = 0
    /\ ke_h = 0
    /\ t = <<>>
    /\ dose_times = <<>>
    /\ C = NoCurve
    /\ metrics = NoMetrics
    /\ args = NoArgs

\* lines 46-49
Derive ==
    /\ pc = "derive"
    /\ V_L' = derive_V_L(inp.Vd_per_kg, inp.weight_kg)
    /\ ke_h' = derive_ke_h(inp.CL_L_h, V_L')
    /\ t' = time_grid(inp.t_end_h, inp.dt_h)
    /\ dose_times' = build_dose_times(inp.tau_h, inp.n_doses, inp.tlag_h)
    /\ pc' = "simulate"
    /\ UNCHANGED <<inp, C, metrics, args>>

\* line 52
Simulate ==
    /\ pc = "simulate"
    /\ C' = oral_one_comp_conc(t, dose_times, inp.dose_mg, inp.F, inp.ka_h,
                               ke_h, V_L)
    /\ pc' = "metrics"
    /\ UNCHANGED <<inp, V_L, ke_h, t, dose_times, metrics, args>>

\* line 53; np.argmax's ValueError ends the run
Metrics ==
    /\ pc = "metrics"
    /\ IF argmax_raises(C.num)
       THEN pc' = "raised" /\ UNCHANGED metrics
       ELSE pc' = "render" /\ metrics' = pk_metrics(t, C.num)
    /\ UNCHANGED <<inp, V_L, ke_h, t, dose_times, C, args>>

\* the user changes one widget after the page is rendered (lines 55-91):
\* the script runs again from the top with nothing computed
Rerun ==
    /\ pc = "render"
    /\ \E f \in DOMAIN inp :
          \E v \in WidgetValues(f) \ {inp[f]} :
             /\ OnLattice([inp EXCEPT ![f] = v])
             /\ inp' = [inp EXCEPT ![f] = v]
    /\ pc' = "derive"
    /\ V_L' = 0
    /\ ke_h' = 0
    /\ t' = <<>>
    /\ dose_times' = <<>>
    /\ C' = NoCurve
    /\ metrics' = NoMetrics
    /\ UNCHANGED args

Next == Derive \/ Simulate \/ Metrics \/ Rerun

Spec == Init /\ [][Next]_vars

(***************** oral_one_comp_conc called on any input ******************)
InitConc ==
    /\ pc = "call_conc"
    /\ t \in SeqsUpTo(0..MaxTime, MaxLen)
    /\ dose_times \in SeqsUpTo(0..MaxTime, MaxDoses)
    /\ args \in [D : {1, 2}, F : {[num |-> 3, den |-> 4], [num |-> 1, den |-> 1]},
                 ka : 1..MaxRate, ke : 1..MaxRate, V : {1}]
    /\ C = NoCurve
    /\ inp = NoInp
    /\ V_L = 0
    /\ ke_h = 0
    /\ metrics = NoMetrics

CallConc ==
    /\ pc = "call_conc"
    /\ C' = oral_one_comp_conc(t, dose_times, args.D, args.F, args.ka,
                               args.ke, args.V)
    /\ pc' = "returned"
    /\ UNCHANGED <<inp, V_L, ke_h, t, dose_times, metrics, args>>

NextConc == CallConc

SpecConc == InitConc /\ [][NextConc]_vars

(********************* pk_metrics called on any input **********************)
ConcValues == (0 - 1)..MaxConc

InitMetrics ==
    /\ pc = "call_metrics"
    /\ \E n \in 0..MaxPts :
          /\ t \in [1..n -> 0..MaxGridTime]
          /\ \E Cn \in [1..n -> ConcValues] :
                C = [num |-> Cn, den |-> 1, perEps |-> FALSE]
    /\ dose_times = <<>>
    /\ args = NoArgs
    /\ inp = NoInp
    /\ V_L = 0
    /\ ke_h = 0
    /\ metrics = NoMetrics

CallMetrics ==
    /\ pc = "call_metrics"
    /\ IF argmax_raises(C.num)
       THEN pc' = "raised" /\ UNCHANGED metrics
       ELSE pc' = "returned" /\ metrics' = pk_metrics(t, C.num)
    /\ UNCHANGED <<inp, V_L, ke_h, t, dose_times, C, args>>

NextMetrics == CallMetrics

SpecMetrics == InitMetrics /\ [][NextMetrics]_vars


(******************************** claims ***********************************)
\* the call of oral_one_comp_conc that produced C, with dose schedule dts
SimArgs(dts) ==
    oral_one_comp_conc(t, dts, args.D, args.F, args.ka, args.ke, args.V)

\* the page's call of line 52 with dose schedule dts
SimPage(dts) ==
    oral_one_comp_conc(t, dts, inp.dose_mg, inp.F, inp.ka_h, ke_h, V_L)

Simulated == pc \in {"metrics", "render"}
Derived == pc \in {"simulate", "metrics", "render"}

\* C1: for every valid input every value of the curve returned by
\* oral_one_comp_conc is >= 0, when ka < ke as well as when ka > ke.
C1_CurveNonNegative ==
    pc = "returned" => \A j \in DOMAIN C.num : C.num[j] >= 0

\* C2: with ka = ke and a single dose at t = 0 the returned curve follows
\* the limiting form (F*D/V)*ke*t*e^(-ke*t), so it is strictly positive at
\* every grid point t > 0.
C2_DegeneratePositive ==
    (pc = "returned" /\ args.ka = args.ke /\ dose_times = <<0>>)
        => \A j \in DOMAIN t : t[j] > 0 => C.num[j] > 0

\* C3 as stated: a dose whose time exceeds t_end contributes zero at every
\* point of the grid np.arange(0, t_end + dt, dt): the curve is the same
\* with and without it.
C3_DoseAfterTEndIsNoOp ==
    Simulated =>
        \A i \in DOMAIN dose_times :
            dose_times[i] > inp.t_end_h => SimPage(RemoveAt(dose_times, i)) = C

\* C3 amended: a dose whose time exceeds the last point of the grid (the
\* first grid point >= t_end, which may lie beyond t_end) contributes zero
\* at every point of the grid: the curve is the same with and without it.
C3_DoseAfterLastPointIsNoOp ==
    Simulated =>
        \A i \in DOMAIN dose_times :
            dose_times[i] > t[Len(t)] => SimPage(RemoveAt(dose_times, i)) = C

C3_Witness ==
    /\ pc = "render"
    /\ \E i \in DOMAIN dose_times : dose_times[i] > t[Len(t)]
    /\ \E j \in DOMAIN t : C.num[j] # 0

\* C4: pk_metrics never raises on a grid (and aligned curve) of length 0 or
\* 1: it returns a result with AUC = 0.
C4_BoundaryGridsHandled ==
    (pc # "call_metrics" /\ Len(t) <= 1)
        => (pc = "returned" /\ metrics.AUC.num = 0)

\* C5: causality: at a grid point t < ti the dose at ti adds exactly 0, so
\* the curve there is what it is without that dose, and the curve is exactly
\* 0 at every grid point earlier than all dose times.
C5_Causality ==
    pc = "returned" =>
        /\ \A i \in DOMAIN dose_times : \A j \in DOMAIN t :
              t[j] < dose_times[i] =>
                 /\ add_dose([k \in DOMAIN t |-> 0], t, dose_times[i],
                             coef(args.D, args.F, args.ka, args.ke, args.V).num,
                             args.ka, args.ke)[j] = 0
                 /\ C.num[j] = SimArgs(RemoveAt(dose_times, i)).num[j]
        /\ \A j \in DOMAIN t :
              (\A i \in DOMAIN dose_times : t[j] < dose_times[i])
                 => C.num[j] = 0

C5_Witness ==
    /\ pc = "returned"
    /\ args.ka # args.ke
    /\ \E i \in DOMAIN dose_times : \E j, k \in DOMAIN t :
          /\ t[j] < dose_times[i]
          /\ t[k] > dose_times[i]
          /\ C.num[j] = 0
          /\ C.num[k] # 0

\* the single-dose kernel c(tj; ti) as a numerator over the curve's den
Kernel(tj, ti) ==
    coef(args.D, args.F, args.ka, args.ke, args.V).num
        * (ExpNum(args.ke, tj - ti) - ExpNum(args.ka, tj - ti))

RECURSIVE KernelSum(_, _)
KernelSum(tj, dts) ==
    IF dts = <<>> THEN 0
    ELSE (IF Head(dts) <= tj THEN Kernel(tj, Head(dts)) ELSE 0)
            + KernelSum(tj, Tail(dts))

\* C6: superposition: at every grid point t the curve is the sum over the
\* dose times ti <= t of the single-dose kernel c(t; ti); for two doses, at
\* every grid point not before the later one the curve is the sum of the two
\* single-dose curves simulated separately, in whichever order the doses
\* are listed.
C6_Superposition ==
    pc = "returned" =>
        /\ \A j \in DOMAIN t : C.num[j] = KernelSum(t[j], dose_times)
        /\ Len(dose_times) = 2 =>
              /\ \A j \in DOMAIN t :
                    (t[j] >= dose_times[1] /\ t[j] >= dose_times[2]) =>
                       C.num[j] = SimArgs(<<dose_times[1]>>).num[j]
                                    + SimArgs(<<dose_times[2]>>).num[j]
              /\ SimArgs(<<dose_times[2], dose_times[1]>>) = C

C6_Witness ==
    /\ pc = "returned"
    /\ Len(dose_times) = 2
    /\ dose_times[1] > dose_times[2]
    /\ \E j \in DOMAIN t :
          /\ t[j] > dose_times[1]
          /\ SimArgs(<<dose_times[1]>>).num[j] # 0
          /\ SimArgs(<<dose_times[2]>>).num[j] # 0
          /\ C.num[j] # SimArgs(<<dose_times[1]>>).num[j]

\* C7: for a non-empty curve pk_metrics returns Cmax = max(curve) and
\* Tmax = grid[k], k the first index at which the curve attains its maximum,
\* also when several grid points tie for it.
C7_CmaxTmaxFirstMaximum ==
    (pc = "returned" /\ Len(C.num) >= 1) =>
        \E k \in DOMAIN C.num :
            /\ metrics.Cmax = C.num[k]
            /\ metrics.Tmax = t[k]
            /\ \A j \in DOMAIN C.num : C.num[j] <= C.num[k]
            /\ \A j \in 1..(k - 1) : C.num[j] < C.num[k]

C7_Witness ==
    /\ pc = "returned"
    /\ \E i, j \in DOMAIN C.num :
          /\ i < j
          /\ C.num[i] = metrics.Cmax
          /\ C.num[j] = metrics.Cmax
          /\ \A k \in 1..(i - 1) : C.num[k] < metrics.Cmax
          /\ t[i] # t[j]
          /\ metrics.Tmax = t[i]

C9_DoseSchedule ==
    Derived =>
        /\ Len(dose_times) = inp.n_doses
        /\ \A i \in 0..(inp.n_doses - 1) :
              dose_times[i + 1] = i * inp.tau_h + inp.tlag_h
        /\ \A i \in 1..(Len(dose_times) - 1) : dose_times[i] < dose_times[i + 1]
        /\ dose_times[1] = inp.tlag_h

C9_Witness ==
    /\ pc = "simulate"
    /\ inp.n_doses >= 2
    /\ inp.tlag_h > 0
    /\ inp.tau_h > 1

\* twice the sum over adjacent pairs of (C_i + C_{i+1})/2 * (t_{i+1} - t_i)
RECURSIVE TwicePairSum(_, _, _)
TwicePairSum(ts, Cn, i) ==
    IF i >= Len(ts) THEN 0
    ELSE (Cn[i] + Cn[i + 1]) * (ts[i + 1] - ts[i]) + TwicePairSum(ts, Cn, i + 1)

\* C10: with at least two points the AUC returned by pk_metrics is the
\* trapezoidal sum over all adjacent pairs; an all-zero curve gives AUC = 0
\* and a non-negative curve over a time grid (non-decreasing) gives AUC >= 0.
C10_TrapezoidalAUC ==
    (pc = "returned" /\ Len(t) >= 2) =>
        /\ 2 * metrics.AUC.num = metrics.AUC.den * TwicePairSum(t, C.num, 1)
        /\ (\A j \in DOMAIN C.num : C.num[j] = 0) => metrics.AUC.num = 0
        /\ ((\A j \in DOMAIN C.num : C.num[j] >= 0)
              /\ (\A i \in 1..(Len(t) - 1) : t[i] <= t[i + 1]))
                 => metrics.AUC.num >= 0

C10_Witness ==
    /\ pc = "returned"
    /\ Len(t) = 3
    /\ t[2] - t[1] # t[3] - t[2]
    /\ t[1] < t[2] /\ t[2] < t[3]
    /\ \A j \in DOMAIN C.num : C.num[j] >= 0
    /\ metrics.AUC.num % 2 = 1

=============================================================================
